---- MODULE Spec2Model ----
(***************************************************************************)
(* Model of the axs example collection:                                    *)
(*   - pytorch_image_classifier/barebones_resnet50.py  (batched runner)    *)
(*   - torch_script_test/barebones_resnet50.py         (runner, no batches)*)
(*   - varia_collection/graph/code_axs.py              (draw / dfs)        *)
(* The two runners are straight-line scripts; every action below is one    *)
(* block of a script, in program order.  The graph renderer is modelled    *)
(* one loop iteration of dfs, and one block of draw, at a time.            *)
(***************************************************************************)
EXTENDS Integers, Sequences, FiniteSets, TLC

(* ---------------------------- bounds ----------------------------------- *)
MaxImages == 4
MaxBatch == 3
MaxDataset == 4
MaxLinks == 3
MaxDraws == 2
MaxItems == 2
MaxOutEntries == 1
MaxOutParents == 1

(* ------------------------ program constants ---------------------------- *)
max_attempts == 3
retry_in_seconds == 20
PadWidth == 5

VARIABLES
    \* ---- the two inference scripts ----
    script,                 \* "batched" | "simple": which script runs
    num_of_images,          \* int(sys.argv[2])
    max_batch_size,         \* int(sys.argv[6])
    output_file_path,       \* sys.argv[4], "" = no recording
    dataset_size,           \* images 1..dataset_size exist in imagenet_dir
    pc,                     \* position in the script
    fault,                  \* "none" or the exception that ended the run
    retry,                  \* loop variable of the model-load loop
    events,                 \* loader calls and sleeps (with their seconds), in order
    model_set,              \* the name `model` is bound
    batch_start,            \* loop variable of the batch loop
    batch_num,
    batches,                \* <<batch_start, batch_open_end>> of each iteration
    loaded,                 \* image numbers opened by Image.open, in order
    predictions,            \* keys of the dict predictions
    top_n_predictions,      \* keys of the dict top_n_predictions
    list_batch_loading_s,
    list_batch_inference_s,
    sum_loading_s,
    sum_inference_s,
    output_dict,            \* "none" or the record dumped to JSON
    file_written,           \* the output file exists
    \* ---- the kernel the graph renderer reads (never written) ----
    known,                  \* entry names kernel.byname() finds
    parents,                \* entry name -> its "_parent_entries" list
    \* ---- draw ----
    dpc,                    \* position in draw
    draws,                  \* invocations of draw so far
    target,
    target_data,            \* target_entry.own_data(), items in dict order
    output_entries,         \* target_entry.get("output_entry_parents")
    byname_entries,
    output,
    output_parents_data,    \* empty, or the value captured at line 38
    graph_built,            \* the Digraph f exists
    pending,                \* names the cluster_1 loop has still to handle
    nodes,                  \* f.node calls of this invocation, in order
    edges,                  \* f.edge calls of this invocation, in order
    rendered,               \* f.render has run
    ret,                    \* what draw returned
    printed,                \* error lines printed by draw and dfs
    \* ---- dfs ----
    dfs_pc,                 \* "idle" | "loop" | "returned"
    calls,                  \* dfs calls of this invocation
    root,
    is_output,
    stack,
    visited,
    pops,                   \* iterations of the while loop in this call
    initial_root_visited    \* the module-level flag

runVars == <<script, num_of_images, max_batch_size, output_file_path, dataset_size,
             pc, fault, retry, events, model_set, batch_start, batch_num, batches,
             loaded, predictions, top_n_predictions, list_batch_loading_s,
             list_batch_inference_s, sum_loading_s, sum_inference_s, output_dict,
             file_written>>

kernelVars == <<known, parents>>

drawVars == <<dpc, draws, target, target_data, output_entries, byname_entries, output,
              output_parents_data, graph_built, pending, rendered, ret>>

dfsVars == <<dfs_pc, calls, root, is_output, stack, visited, pops>>

logVars == <<nodes, edges, printed, initial_root_visited>>

graphVars == <<kernelVars, drawVars, dfsVars, logVars>>

vars == <<runVars, graphVars>>

(* ----------------------------- helpers --------------------------------- *)
Min(x, y) == IF x <= y THEN x ELSE y

RECURSIVE SumSeq(_)
SumSeq(s) == IF s = <<>> THEN 0 ELSE Head(s) + SumSeq(Tail(s))

\* math.ceil(num_of_images / max_batch_size) for max_batch_size >= 1
CeilDiv(n, b) == IF n % b = 0 THEN n \div b ELSE (n \div b) + 1

batch_count == CeilDiv(num_of_images, max_batch_size)

\* decimal digits of N >= 0, most significant first
RECURSIVE Digits(_)
Digits(N) == IF N < 10 THEN <<N>> ELSE Append(Digits(N \div 10), N % 10)

\* '{:05d}'.format(N): left-padded with zeros to at least PadWidth digits
RECURSIVE ZeroPad(_)
ZeroPad(d) == IF Len(d) >= PadWidth THEN d ELSE ZeroPad(<<0>> \o d)

\* file_pattern.format(N) with file_pattern = 'ILSVRC2012_val_000{:05d}.JPEG'
FileName(N) == <<"ILSVRC2012_val_000">> \o ZeroPad(Digits(N)) \o <<".JPEG">>

\* range(lo, hi) as a sequence
Range(lo, hi) == [k \in 1..(IF hi > lo THEN hi - lo ELSE 0) |-> lo + k - 1]

\* load_one_batch opens file_pattern.format(i+1); the open fails for a missing file
ImageExists(i) == i + 1 <= dataset_size

\* the indices load_one_batch handles before it returns or raises
RECURSIVE OpenedPrefix(_)
OpenedPrefix(indices) ==
    IF indices = <<>> THEN <<>>
    ELSE IF ~ImageExists(Head(indices)) THEN <<>>
    ELSE <<Head(indices)>> \o OpenedPrefix(Tail(indices))

\* variant of line 76 that formats i instead of i+1
load_one_batch_zero_indexed(indices) == [k \in 1..Len(indices) |-> FileName(indices[k])]

\* load_one_batch(indices): file_names of a batch whose images all exist
load_one_batch(indices) == [k \in 1..Len(indices) |-> FileName(indices[k] + 1)]

SeqRange(s) == {s[k] : k \in 1..Len(s)}

\* a difference of two time() readings: zero (the clock did not advance) or not
Durations == {0, 1}

(* ------------------------------- Init ---------------------------------- *)
NoEntry == "None"

\* the graph renderer before any call (line 6: initial_root_visited = False)
GraphIdle ==
    /\ known = {}
    /\ parents = <<>>
    /\ dpc = "idle" /\ draws = 0 /\ target = NoEntry /\ target_data = <<>>
    /\ output_entries = <<>> /\ byname_entries = <<>> /\ output = FALSE
    /\ output_parents_data = <<>> /\ graph_built = FALSE /\ pending = <<>>
    /\ nodes = <<>> /\ edges = <<>> /\ rendered = FALSE /\ ret = "pending"
    /\ printed = <<>>
    /\ dfs_pc = "idle" /\ calls = 0 /\ root = NoEntry /\ is_output = FALSE
    /\ stack = <<>> /\ visited = {} /\ pops = 0
    /\ initial_root_visited = FALSE

\* the state of a script after its module-level assignments (lines 47-57, 112-118)
InitRun ==
    /\ GraphIdle
    /\ script \in {"batched", "simple"}
    /\ num_of_images \in 0..MaxImages
    /\ max_batch_size \in 0..MaxBatch
    /\ output_file_path \in {"", "experiment.json"}
    /\ dataset_size \in 0..MaxDataset
    /\ pc = "start"
    /\ fault = "none"
    /\ retry = 0
    /\ events = <<>>
    /\ model_set = FALSE
    /\ batch_start = 0
    /\ batch_num = 0
    /\ batches = <<>>
    /\ loaded = <<>>
    /\ predictions = {}
    /\ top_n_predictions = {}
    /\ list_batch_loading_s = <<>>
    /\ list_batch_inference_s = <<>>
    /\ sum_loading_s = 0
    /\ sum_inference_s = 0
    /\ output_dict = "none"
    /\ file_written = FALSE

(* ------------------ batched runner: lines 47-70 ------------------------ *)
\* line 57: batch_count = math.ceil(num_of_images / max_batch_size)
Startup ==
    /\ script = "batched"
    /\ UNCHANGED graphVars
    /\ pc = "start"
    /\ max_batch_size >= 1
    /\ pc' = "load_model"
    /\ UNCHANGED <<script, num_of_images, max_batch_size, output_file_path, dataset_size,
                   fault, retry, events, model_set, batch_start, batch_num, batches,
                   loaded, predictions, top_n_predictions, list_batch_loading_s,
                   list_batch_inference_s, sum_loading_s, sum_inference_s, output_dict,
                   file_written>>

\* line 57 with max_batch_size = 0 divides by zero
StartupFault ==
    /\ script = "batched"
    /\ UNCHANGED graphVars
    /\ pc = "start"
    /\ max_batch_size = 0
    /\ pc' = "fault"
    /\ fault' = "ZeroDivisionError"
    /\ UNCHANGED <<script, num_of_images, max_batch_size, output_file_path, dataset_size,
                   retry, events, model_set, batch_start, batch_num, batches,
                   loaded, predictions, top_n_predictions, list_batch_loading_s,
                   list_batch_inference_s, sum_loading_s, sum_inference_s, output_dict,
                   file_written>>

(* ------------------ model-load retry loop: lines 87-97 ----------------- *)
\* variant of lines 89-92 without the retry>0 test
SleepBefore_every(r) == <<[kind |-> "sleep", s |-> retry_in_seconds]>>

\* lines 89-92: the sleep that precedes every attempt but the first
SleepBefore(r) == IF r > 0 THEN <<[kind |-> "sleep", s |-> retry_in_seconds]>> ELSE <<>>

\* line 94: one call of torch.hub.load and how it ended
LoaderCall(how) == <<[kind |-> how, s |-> 0]>>

\* an attempt whose torch.hub.load returns: model is bound, break
AttemptOk ==
    /\ script = "batched"
    /\ UNCHANGED graphVars
    /\ pc = "load_model"
    /\ retry < max_attempts
    /\ events' = events \o SleepBefore(retry) \o LoaderCall("load_ok")
    /\ model_set' = TRUE
    /\ pc' = "use_model"
    /\ UNCHANGED <<script, num_of_images, max_batch_size, output_file_path, dataset_size,
                   fault, retry, batch_start, batch_num, batches,
                   loaded, predictions, top_n_predictions, list_batch_loading_s,
                   list_batch_inference_s, sum_loading_s, sum_inference_s, output_dict,
                   file_written>>

\* where the for loop goes after the except clause of attempt r
AfterHTTPError(r) == IF r + 1 < max_attempts THEN "load_model" ELSE "use_model"

\* an attempt whose torch.hub.load raises HTTPError: printed, next iteration
AttemptHTTPError ==
    /\ script = "batched"
    /\ UNCHANGED graphVars
    /\ pc = "load_model"
    /\ retry < max_attempts
    /\ events' = events \o SleepBefore(retry) \o LoaderCall("load_http_error")
    /\ retry' = retry + 1
    /\ pc' = AfterHTTPError(retry)
    /\ UNCHANGED <<script, num_of_images, max_batch_size, output_file_path, dataset_size,
                   fault, model_set, batch_start, batch_num, batches,
                   loaded, predictions, top_n_predictions, list_batch_loading_s,
                   list_batch_inference_s, sum_loading_s, sum_inference_s, output_dict,
                   file_written>>

\* an attempt whose torch.hub.load raises anything else: not caught
AttemptOtherError ==
    /\ script = "batched"
    /\ UNCHANGED graphVars
    /\ pc = "load_model"
    /\ retry < max_attempts
    /\ events' = events \o SleepBefore(retry) \o LoaderCall("load_other_error")
    /\ pc' = "fault"
    /\ fault' = "Exception"
    /\ UNCHANGED <<script, num_of_images, max_batch_size, output_file_path, dataset_size,
                   retry, model_set, batch_start, batch_num, batches,
                   loaded, predictions, top_n_predictions, list_batch_loading_s,
                   list_batch_inference_s, sum_loading_s, sum_inference_s, output_dict,
                   file_written>>

\* variant of lines 100-118 in which an unbound model goes unnoticed
UseModel_unchecked ==
    /\ script = "batched"
    /\ UNCHANGED graphVars
    /\ pc = "use_model"
    /\ pc' = "batch_loop"
    /\ UNCHANGED <<script, num_of_images, max_batch_size, output_file_path, dataset_size,
                   fault, retry, events, model_set, batch_start, batch_num, batches,
                   loaded, predictions, top_n_predictions, list_batch_loading_s,
                   list_batch_inference_s, sum_loading_s, sum_inference_s, output_dict,
                   file_written>>

\* lines 100-118: model.eval() raises NameError when model was never bound
UseModel ==
    /\ script = "batched"
    /\ UNCHANGED graphVars
    /\ pc = "use_model"
    /\ IF model_set
         THEN pc' = "batch_loop" /\ fault' = fault
         ELSE pc' = "fault" /\ fault' = "NameError"
    /\ UNCHANGED <<script, num_of_images, max_batch_size, output_file_path, dataset_size,
                   retry, events, model_set, batch_start, batch_num, batches,
                   loaded, predictions, top_n_predictions, list_batch_loading_s,
                   list_batch_inference_s, sum_loading_s, sum_inference_s, output_dict,
                   file_written>>

(* ------------------------ batch loop: lines 120-160 -------------------- *)
\* variant of line 122 without the clamp to num_of_images
batch_open_end_unclamped == batch_start + max_batch_size

\* line 122
batch_open_end == Min(batch_start + max_batch_size, num_of_images)

\* line 120: the value range() yields after batch_start
NextBatchStart(s) == s + max_batch_size

\* one iteration whose images all exist
BatchIter ==
    /\ script = "batched"
    /\ UNCHANGED graphVars
    /\ pc = "batch_loop"
    /\ batch_start < num_of_images
    /\ LET indices == Range(batch_start, batch_open_end)
           batch_file_names == load_one_batch(indices)
       IN /\ \A k \in 1..Len(indices) : ImageExists(indices[k])
          /\ batch_num' = batch_num + 1
          /\ batches' = Append(batches, <<batch_start, batch_open_end>>)
          /\ loaded' = loaded \o [k \in 1..Len(indices) |-> indices[k] + 1]
          /\ predictions' = predictions \cup SeqRange(batch_file_names)
          /\ \E batch_loading_s \in Durations, batch_inference_s \in Durations :
                /\ list_batch_loading_s' = Append(list_batch_loading_s, batch_loading_s)
                /\ list_batch_inference_s' = Append(list_batch_inference_s, batch_inference_s)
                /\ sum_loading_s' = sum_loading_s + batch_loading_s
                /\ sum_inference_s' = sum_inference_s + batch_inference_s
          /\ top_n_predictions' = top_n_predictions \cup
                {batch_file_names[i + 1] : i \in 0..(batch_open_end - batch_start - 1)}
          /\ batch_start' = NextBatchStart(batch_start)
    /\ UNCHANGED <<script, num_of_images, max_batch_size, output_file_path, dataset_size,
                   pc, fault, retry, events, model_set, output_dict, file_written>>

\* one iteration in which Image.open fails: the exception ends the run
BatchIterFault ==
    /\ script = "batched"
    /\ UNCHANGED graphVars
    /\ pc = "batch_loop"
    /\ batch_start < num_of_images
    /\ LET indices == Range(batch_start, batch_open_end)
           opened == OpenedPrefix(indices)
       IN /\ \E k \in 1..Len(indices) : ~ImageExists(indices[k])
          /\ batch_num' = batch_num + 1
          /\ batches' = Append(batches, <<batch_start, batch_open_end>>)
          /\ loaded' = loaded \o [k \in 1..Len(opened) |-> opened[k] + 1]
    /\ pc' = "fault"
    /\ fault' = "FileNotFoundError"
    /\ UNCHANGED <<script, num_of_images, max_batch_size, output_file_path, dataset_size,
                   retry, events, model_set, batch_start, predictions, top_n_predictions,
                   list_batch_loading_s, list_batch_inference_s, sum_loading_s,
                   sum_inference_s, output_dict, file_written>>

\* range(0, num_of_images, max_batch_size) is exhausted
BatchLoopEnd ==
    /\ script = "batched"
    /\ UNCHANGED graphVars
    /\ pc = "batch_loop"
    /\ batch_start >= num_of_images
    /\ pc' = "output"
    /\ UNCHANGED <<script, num_of_images, max_batch_size, output_file_path, dataset_size,
                   fault, retry, events, model_set, batch_start, batch_num, batches,
                   loaded, predictions, top_n_predictions, list_batch_loading_s,
                   list_batch_inference_s, sum_loading_s, sum_inference_s, output_dict,
                   file_written>>

(* ------------------------ output block: lines 163-186 ------------------ *)
\* the output block is entered only for a non-empty path
OutputWanted == output_file_path # ""

\* variant of lines 174-175 in which an image count of zero does not raise
DivisionFaults_zero_count_ignored(total_s) == num_of_images # 0 /\ total_s = 0

\* lines 174-175: the two divisions; a zero denominator raises
DivisionFaults(total_s) == num_of_images = 0 \/ total_s = 0

\* line 163 false: nothing is recorded
OutputSkipped ==
    /\ script = "batched"
    /\ UNCHANGED graphVars
    /\ pc = "output"
    /\ ~OutputWanted
    /\ pc' = "done"
    /\ UNCHANGED <<script, num_of_images, max_batch_size, output_file_path, dataset_size,
                   fault, retry, events, model_set, batch_start, batch_num, batches,
                   loaded, predictions, top_n_predictions, list_batch_loading_s,
                   list_batch_inference_s, sum_loading_s, sum_inference_s, output_dict,
                   file_written>>

\* lines 164-186: the record is built and written
OutputWritten ==
    /\ script = "batched"
    /\ UNCHANGED graphVars
    /\ pc = "output"
    /\ OutputWanted
    /\ ~DivisionFaults(sum_inference_s)
    /\ output_dict' = [ max_batch_size |-> max_batch_size,
                        sum_loading_s |-> sum_loading_s,
                        sum_inference_s |-> sum_inference_s,
                        per_inference_s |-> <<sum_inference_s, num_of_images>>,
                        fps |-> <<num_of_images, sum_inference_s>>,
                        list_batch_loading_s |-> list_batch_loading_s,
                        list_batch_inference_s |-> list_batch_inference_s,
                        predictions |-> predictions,
                        top_n |-> top_n_predictions ]
    /\ file_written' = TRUE
    /\ pc' = "done"
    /\ UNCHANGED <<script, num_of_images, max_batch_size, output_file_path, dataset_size,
                   fault, retry, events, model_set, batch_start, batch_num, batches,
                   loaded, predictions, top_n_predictions, list_batch_loading_s,
                   list_batch_inference_s, sum_loading_s, sum_inference_s>>

\* lines 174-175 raise ZeroDivisionError while output_dict is being built
OutputFault ==
    /\ script = "batched"
    /\ UNCHANGED graphVars
    /\ pc = "output"
    /\ OutputWanted
    /\ DivisionFaults(sum_inference_s)
    /\ pc' = "fault"
    /\ fault' = "ZeroDivisionError"
    /\ UNCHANGED <<script, num_of_images, max_batch_size, output_file_path, dataset_size,
                   retry, events, model_set, batch_start, batch_num, batches,
                   loaded, predictions, top_n_predictions, list_batch_loading_s,
                   list_batch_inference_s, sum_loading_s, sum_inference_s, output_dict,
                   file_written>>

(* ---------- torch_script_test/barebones_resnet50.py (no batching) ------ *)
U_simple == <<script, num_of_images, max_batch_size, output_file_path, dataset_size,
              retry, events, batch_start, batch_num, batches, top_n_predictions,
              list_batch_loading_s, list_batch_inference_s, sum_loading_s>>

\* lines 34-36: a single load, no retry
SimpleLoadOk ==
    /\ script = "simple"
    /\ UNCHANGED graphVars
    /\ pc = "start"
    /\ model_set' = TRUE
    /\ pc' = "s_images"
    /\ UNCHANGED <<U_simple, fault, loaded, predictions, sum_inference_s, output_dict,
                   file_written>>

\* line 34 raises (HTTPError included): nothing catches it
SimpleLoadFault ==
    /\ script = "simple"
    /\ UNCHANGED graphVars
    /\ pc = "start"
    /\ pc' = "fault"
    /\ fault' = "Exception"
    /\ UNCHANGED <<U_simple, model_set, loaded, predictions, sum_inference_s, output_dict,
                   file_written>>

\* lines 47-55: every image of range(num_of_images) is opened
SimpleLoadImages ==
    /\ script = "simple"
    /\ UNCHANGED graphVars
    /\ pc = "s_images"
    /\ LET indices == Range(0, num_of_images)
           opened == OpenedPrefix(indices)
       IN /\ loaded' = [k \in 1..Len(opened) |-> opened[k] + 1]
          /\ IF Len(opened) = Len(indices)
               THEN pc' = "s_stack" /\ fault' = fault
               ELSE pc' = "fault" /\ fault' = "FileNotFoundError"
    /\ UNCHANGED <<U_simple, model_set, predictions, sum_inference_s, output_dict,
                   file_written>>

\* lines 57-70: torch.stack, forward pass, argmax; the duration is a clock difference
SimpleInfer ==
    /\ script = "simple"
    /\ UNCHANGED graphVars
    /\ pc = "s_stack"
    /\ \E all_inference_s \in Durations : sum_inference_s' = all_inference_s
    /\ pc' = "s_output"
    /\ UNCHANGED <<U_simple, fault, model_set, loaded, predictions, output_dict,
                   file_written>>

\* line 57: torch.stack of an empty list is the framework's business; it may raise
SimpleStackFault ==
    /\ script = "simple"
    /\ UNCHANGED graphVars
    /\ pc = "s_stack"
    /\ num_of_images = 0
    /\ pc' = "fault"
    /\ fault' = "RuntimeError"
    /\ UNCHANGED <<U_simple, model_set, loaded, predictions, sum_inference_s, output_dict,
                   file_written>>

\* lines 88-89: no path, the class numbers are printed
SimplePrinted ==
    /\ script = "simple"
    /\ UNCHANGED graphVars
    /\ pc = "s_output"
    /\ ~OutputWanted
    /\ pc' = "done"
    /\ UNCHANGED <<U_simple, fault, model_set, loaded, predictions, sum_inference_s,
                   output_dict, file_written>>

\* lines 73-87
SimpleWritten ==
    /\ script = "simple"
    /\ UNCHANGED graphVars
    /\ pc = "s_output"
    /\ OutputWanted
    /\ ~DivisionFaults(sum_inference_s)
    /\ predictions' = SeqRange(load_one_batch(Range(0, num_of_images)))
    /\ output_dict' = [ all_inference_s |-> sum_inference_s,
                        per_inference_s |-> <<sum_inference_s, num_of_images>>,
                        fps |-> <<num_of_images, sum_inference_s>>,
                        predictions |-> predictions' ]
    /\ file_written' = TRUE
    /\ pc' = "done"
    /\ UNCHANGED <<U_simple, fault, model_set, loaded, sum_inference_s>>

\* lines 79-80 raise ZeroDivisionError
SimpleOutputFault ==
    /\ script = "simple"
    /\ UNCHANGED graphVars
    /\ pc = "s_output"
    /\ OutputWanted
    /\ DivisionFaults(sum_inference_s)
    /\ pc' = "fault"
    /\ fault' = "ZeroDivisionError"
    /\ UNCHANGED <<U_simple, model_set, loaded, predictions, sum_inference_s, output_dict,
                   file_written>>

NextRun ==
    \/ Startup \/ StartupFault
    \/ AttemptOk \/ AttemptHTTPError \/ AttemptOtherError
    \/ UseModel
    \/ BatchIter \/ BatchIterFault \/ BatchLoopEnd
    \/ OutputSkipped \/ OutputWritten \/ OutputFault
    \/ SimpleLoadOk \/ SimpleLoadFault \/ SimpleLoadImages
    \/ SimpleInfer \/ SimpleStackFault
    \/ SimplePrinted \/ SimpleWritten \/ SimpleOutputFault

SpecRun == InitRun /\ [][NextRun]_vars

(* =============== varia_collection/graph/code_axs.py ==================== *)
\* the scripts when no script runs
RunIdle ==
    /\ script = "none" /\ num_of_images = 0 /\ max_batch_size = 1
    /\ output_file_path = "" /\ dataset_size = 0 /\ pc = "done" /\ fault = "none"
    /\ retry = 0 /\ events = <<>> /\ model_set = FALSE /\ batch_start = 0
    /\ batch_num = 0 /\ batches = <<>> /\ loaded = <<>> /\ predictions = {}
    /\ top_n_predictions = {} /\ list_batch_loading_s = <<>>
    /\ list_batch_inference_s = <<>> /\ sum_loading_s = 0 /\ sum_inference_s = 0
    /\ output_dict = "none" /\ file_written = FALSE

(* ------------------------------ the kernel ----------------------------- *)
\* An entry is identified by its name: two objects with one name are one entry.
\* An element of "_parent_entries" is a name (byref = FALSE, looked up with byname)
\* or an entry object (byref = TRUE), which need not be a name byname finds.
Names == {"a", "b", "c"}
Ref == [byref : BOOLEAN, name : Names]
Link == [child : Names, ref : Ref]

\* the sets of names byname() may find, one per size: names are interchangeable
KnownSets == {{"a", "b", "c"}, {"a", "b"}, {"a"}, {}}

SeqsUpTo(S, n) == UNION {[1..k -> S] : k \in 0..n}

\* the "_parent_entries" lists a sequence of links stands for
ParentsOf(links) ==
    [n \in Names |->
        LET mine == SelectSeq(links, LAMBDA l : l.child = n)
        IN [k \in 1..Len(mine) |-> mine[k].ref]]

\* kernel.byname(name): the entry, or None
byname(name) == IF name \in known THEN name ELSE NoEntry

\* lines 124-127: the entry a parent element stands for
ResolveParent(parent) == IF parent.byref THEN parent.name ELSE byname(parent.name)

\* variant of lines 123-131 that leaves the for loop at the first unresolvable parent
RECURSIVE ResolvedParents_break(_)
ResolvedParents_break(refs) ==
    IF refs = <<>> THEN <<>>
    ELSE IF ResolveParent(Head(refs)) = NoEntry THEN <<>>
    ELSE <<ResolveParent(Head(refs))>> \o ResolvedParents_break(Tail(refs))

\* lines 123-131: the parents that pass `if not p: continue`, in list order
RECURSIVE ResolvedParents(_)
ResolvedParents(refs) ==
    IF refs = <<>> THEN <<>>
    ELSE IF ResolveParent(Head(refs)) = NoEntry THEN ResolvedParents(Tail(refs))
    ELSE <<ResolveParent(Head(refs))>> \o ResolvedParents(Tail(refs))

(* --------------------------- dfs: lines 87-133 ------------------------- *)
\* lines 110-116
NodeColor(flag, out) ==
    IF ~flag THEN "red" ELSE IF out THEN "lightblue" ELSE "lightcoral"

\* variant of line 107 without the visited test
AlreadyVisited_never(name) == FALSE

\* line 107
AlreadyVisited(name) == name \in visited

\* lines 92-101: the call dfs(r, c, __entry__, is_output=out)
DfsCall(r, out) ==
    /\ calls' = calls + 1
    /\ root' = r
    /\ is_output' = out
    /\ visited' = {}
    /\ pops' = 0
    /\ IF byname(r) = NoEntry
         THEN /\ printed' = Append(printed, "ERROR!")
              /\ stack' = <<>>
              /\ dfs_pc' = "returned"
         ELSE /\ printed' = printed
              /\ stack' = << <<byname(r), TRUE>> >>
              /\ dfs_pc' = "loop"

\* lines 103-131: one iteration of `while stack:`
DfsStep ==
    /\ dfs_pc = "loop"
    /\ stack # <<>>
    /\ LET cur_target == stack[Len(stack)][1]
           popped == SubSeq(stack, 1, Len(stack) - 1)
           ps == ResolvedParents(parents[cur_target])
       IN IF AlreadyVisited(cur_target)
            THEN /\ stack' = popped
                 /\ UNCHANGED <<nodes, edges, visited, initial_root_visited>>
            ELSE /\ nodes' = Append(nodes, [name |-> cur_target,
                                            color |-> NodeColor(initial_root_visited, is_output),
                                            call |-> calls,
                                            is_output |-> is_output])
                 /\ initial_root_visited' = TRUE
                 /\ visited' = visited \cup {cur_target}
                 /\ stack' = popped \o [k \in 1..Len(ps) |-> <<ps[k], FALSE>>]
                 /\ edges' = edges \o [k \in 1..Len(ps) |->
                                          [from |-> ps[k], to |-> cur_target, call |-> calls]]
    /\ pops' = pops + 1
    /\ UNCHANGED <<runVars, kernelVars, drawVars, dfs_pc, calls, root, is_output, printed>>

\* line 133: the stack is empty, dfs returns
DfsExit ==
    /\ dfs_pc = "loop"
    /\ stack = <<>>
    /\ dfs_pc' = "returned"
    /\ UNCHANGED <<runVars, kernelVars, drawVars, calls, root, is_output, stack, visited,
                   pops, logVars>>

\* dfs called on its own on any root, is_output left at its default
DfsInvoke ==
    /\ dpc = "no_draw"
    /\ dfs_pc = "idle"
    /\ \E r \in Names : DfsCall(r, FALSE)
    /\ UNCHANGED <<runVars, kernelVars, drawVars, nodes, edges, initial_root_visited>>

InitDfs ==
    /\ RunIdle
    /\ known \in KnownSets
    /\ \E links \in SeqsUpTo(Link, MaxLinks) : parents = ParentsOf(links)
    /\ dpc = "no_draw" /\ draws = 0 /\ target = NoEntry /\ target_data = <<>>
    /\ output_entries = <<>> /\ byname_entries = <<>> /\ output = FALSE
    /\ output_parents_data = <<>> /\ graph_built = FALSE /\ pending = <<>>
    /\ nodes = <<>> /\ edges = <<>> /\ rendered = FALSE /\ ret = "pending"
    /\ printed = <<>>
    /\ dfs_pc = "idle" /\ calls = 0 /\ root = NoEntry /\ is_output = FALSE
    /\ stack = <<>> /\ visited = {} /\ pops = 0
    /\ initial_root_visited = FALSE

NextDfs == DfsInvoke \/ DfsStep \/ DfsExit

SpecDfs == InitDfs /\ [][NextDfs]_vars

(* --------------------------- draw: lines 8-85 -------------------------- *)
\* A metadata value is modelled by the quoted words of its str() rendering, in
\* order; `word in str(val)` is membership among them.
InStr(word, val) == \E k \in 1..Len(val) : val[k] = word

\* own_data() items: top-level parents, top-level tags, a value that nests
\* "_parent_entries", and a value that nests "tags"
DataItems ==
    { [key |-> "_parent_entries",   val |-> <<"^", "byname", "shell">>],
      [key |-> "tags",              val |-> <<"graph">>],
      [key |-> "return_this_entry", val |-> <<"^^", "execute", "_parent_entries", "byname">>],
      [key |-> "output_entry",      val |-> <<"plant", "tags", "graph_output">>] }

\* dicts: items in insertion order, keys distinct
OwnData ==
    {d \in SeqsUpTo(DataItems, MaxItems) :
        \A i, j \in 1..Len(d) : d[i].key = d[j].key => i = j}

\* elements of "output_entry_parents": lists of words, or something that is no list
OutputEntryItems ==
    { [is_list |-> TRUE,  words |-> <<"^", "byname", "b">>],
      [is_list |-> TRUE,  words |-> <<"^", "byname">>],
      [is_list |-> FALSE, words |-> <<"byname", "a">>] }

IndexOf(words, w) == CHOOSE k \in 1..Len(words) : words[k] = w /\ \A j \in 1..(k - 1) : words[j] # w

\* lines 172-179
RECURSIVE extract_byname_entries(_)
extract_byname_entries(items) ==
    IF items = <<>> THEN <<>>
    ELSE LET item == Head(items)
             rest == extract_byname_entries(Tail(items))
         IN IF item.is_list /\ InStr("byname", item.words)
              THEN LET index == IndexOf(item.words, "byname") + 1
                   IN IF index <= Len(item.words)
                        THEN <<item.words[index]>> \o rest
                        ELSE rest
              ELSE rest

\* variant of lines 35-42 that tests the keys of own_data instead of its values
RECURSIVE ScanOutput_by_key(_, _, _)
ScanOutput_by_key(items, entries, acc) ==
    IF items = <<>> THEN acc
    ELSE ScanOutput_by_key(Tail(items), entries,
            IF Head(items).key = "_parent_entries" THEN TRUE
            ELSE IF Head(items).key = "tags" THEN TRUE
            ELSE IF entries # <<>> THEN TRUE
            ELSE acc)

\* lines 35-42: the value of `output` after the loop over own_data
RECURSIVE ScanOutput(_, _, _)
ScanOutput(items, entries, acc) ==
    IF items = <<>> THEN acc
    ELSE ScanOutput(Tail(items), entries,
            IF InStr("_parent_entries", Head(items).val) THEN TRUE
            ELSE IF InStr("tags", Head(items).val) THEN TRUE
            ELSE IF entries # <<>> THEN TRUE
            ELSE acc)

\* lines 35-38: the value of output_parents_data after the loop
RECURSIVE ScanParentsData(_, _)
ScanParentsData(items, acc) ==
    IF items = <<>> THEN acc
    ELSE ScanParentsData(Tail(items),
            IF InStr("_parent_entries", Head(items).val) THEN Head(items).val ELSE acc)

\* variant of line 18 that keeps the flag of the previous invocation
FlagAtEntry_kept == initial_root_visited

\* line 18
FlagAtEntry == FALSE

\* variant of line 24 that takes every target as found
TargetFound_always(t) == TRUE

\* line 24: `if target_entry:`
TargetFound(t) == byname(t) # NoEntry

\* what a new invocation starts from: its locals, and the record of what it emitted.
\* return_this_entry and __entry__ are filled in by the caller, so line 21 succeeds.
FreshInvocation ==
    /\ draws' = draws + 1
    /\ target_data' = <<>> /\ output_entries' = <<>> /\ byname_entries' = <<>>
    /\ graph_built' = FALSE /\ pending' = <<>> /\ rendered' = FALSE
    /\ nodes' = <<>> /\ edges' = <<>>
    /\ dfs_pc' = "idle" /\ calls' = 0 /\ root' = NoEntry /\ is_output' = FALSE
    /\ stack' = <<>> /\ visited' = {} /\ pops' = 0

\* lines 17-25: the target resolves
DrawStart ==
    /\ dpc \in {"idle", "returned", "fault"}
    /\ draws < MaxDraws
    /\ \E t \in Names :
          /\ TargetFound(t)
          /\ target' = t
    /\ FreshInvocation
    /\ initial_root_visited' = FlagAtEntry
    /\ output' = FALSE
    /\ output_parents_data' = <<>>
    /\ printed' = <<>>
    /\ ret' = "pending"
    /\ dpc' = "scan"
    /\ UNCHANGED <<runVars, kernelVars>>

\* lines 17-24 and 84-85: the target does not resolve
DrawNotFound ==
    /\ dpc \in {"idle", "returned", "fault"}
    /\ draws < MaxDraws
    /\ \E t \in Names :
          /\ ~TargetFound(t)
          /\ target' = t
    /\ FreshInvocation
    /\ initial_root_visited' = FlagAtEntry
    /\ output' = FALSE
    /\ output_parents_data' = <<>>
    /\ printed' = <<"ERROR! Provide correct entry name!">>
    /\ ret' = "None"
    /\ dpc' = "returned"
    /\ UNCHANGED <<runVars, kernelVars>>

\* lines 25-47: own_data and "output_entry_parents" are read and scanned, f is built
DrawScan ==
    /\ dpc = "scan"
    /\ \E d \in OwnData, oe \in SeqsUpTo(OutputEntryItems, MaxOutEntries) :
          /\ target_data' = d
          /\ output_entries' = oe
          /\ byname_entries' = (IF oe # <<>> THEN extract_byname_entries(oe) ELSE <<>>)
          /\ output' = ScanOutput(d, oe, output)
          /\ output_parents_data' = ScanParentsData(d, output_parents_data)
    /\ graph_built' = TRUE
    /\ dpc' = "cluster_0"
    /\ UNCHANGED <<runVars, kernelVars, draws, target, pending, rendered, ret, dfsVars,
                   logVars>>

\* lines 49-52: dfs(target, c, __entry__, is_output=False)
DrawCluster0 ==
    /\ dpc = "cluster_0"
    /\ DfsCall(target, FALSE)
    /\ dpc' = "in_cluster_0"
    /\ UNCHANGED <<runVars, kernelVars, draws, target, target_data, output_entries,
                   byname_entries, output, output_parents_data, graph_built, pending,
                   rendered, ret, nodes, edges, initial_root_visited>>

OutputNode == [name |-> "output", color |-> "blue", call |-> 0, is_output |-> FALSE]
OutputEdge(from) == [from |-> from, to |-> "output", call |-> 0]

\* lines 54-56, once dfs has returned
DrawOutputNode ==
    /\ dpc = "in_cluster_0"
    /\ dfs_pc = "returned"
    /\ IF output
         THEN /\ nodes' = Append(nodes, OutputNode)
              /\ edges' = Append(edges, OutputEdge(target))
         ELSE UNCHANGED <<nodes, edges>>
    /\ dfs_pc' = "idle"
    /\ dpc' = "select"
    /\ UNCHANGED <<runVars, kernelVars, draws, target, target_data, output_entries,
                   byname_entries, output, output_parents_data, graph_built, pending,
                   rendered, ret, calls, root, is_output, stack, visited, pops, printed,
                   initial_root_visited>>

\* lines 58-61: find_parent and find_byname read <path>/data_axs.json; the names
\* they return are whatever that file holds
DrawFromFile ==
    /\ dpc = "select"
    /\ output_parents_data # <<>>
    /\ \E output_parents \in SeqsUpTo(Names, MaxOutParents) : pending' = output_parents
    /\ dpc' = "cluster_1"
    /\ UNCHANGED <<runVars, kernelVars, draws, target, target_data, output_entries,
                   byname_entries, output, output_parents_data, graph_built,
                   rendered, ret, dfsVars, logVars>>

\* lines 58-61: the file is missing, or an item is too short for list(item)[2]
DrawFromFileFault ==
    /\ dpc = "select"
    /\ output_parents_data # <<>>
    /\ dpc' = "fault"
    /\ UNCHANGED <<runVars, kernelVars, draws, target, target_data, output_entries,
                   byname_entries, output, output_parents_data, graph_built, pending,
                   rendered, ret, dfsVars, logVars>>

\* lines 72-73
DrawFromEntries ==
    /\ dpc = "select"
    /\ output_parents_data = <<>>
    /\ output_entries # <<>> /\ byname_entries # <<>>
    /\ pending' = byname_entries
    /\ dpc' = "cluster_1"
    /\ UNCHANGED <<runVars, kernelVars, draws, target, target_data, output_entries,
                   byname_entries, output, output_parents_data, graph_built,
                   rendered, ret, dfsVars, logVars>>

\* neither line 58 nor line 72 holds
DrawNoOutputParents ==
    /\ dpc = "select"
    /\ output_parents_data = <<>>
    /\ ~(output_entries # <<>> /\ byname_entries # <<>>)
    /\ dpc' = "cluster_1"
    /\ UNCHANGED <<runVars, kernelVars, draws, target, target_data, output_entries,
                   byname_entries, output, output_parents_data, graph_built, pending,
                   rendered, ret, dfsVars, logVars>>

\* lines 63-66 and 74-77: dfs(output_parent, c, __entry__, is_output=True)
DrawCluster1 ==
    /\ dpc = "cluster_1"
    /\ pending # <<>>
    /\ DfsCall(Head(pending), TRUE)
    /\ dpc' = "in_cluster_1"
    /\ UNCHANGED <<runVars, kernelVars, draws, target, target_data, output_entries,
                   byname_entries, output, output_parents_data, graph_built, pending,
                   rendered, ret, nodes, edges, initial_root_visited>>

\* lines 67 and 78, once dfs has returned: f.edge(output_parent, "output")
DrawCluster1Edge ==
    /\ dpc = "in_cluster_1"
    /\ dfs_pc = "returned"
    /\ edges' = Append(edges, OutputEdge(Head(pending)))
    /\ pending' = Tail(pending)
    /\ dfs_pc' = "idle"
    /\ dpc' = "cluster_1"
    /\ UNCHANGED <<runVars, kernelVars, draws, target, target_data, output_entries,
                   byname_entries, output, output_parents_data, graph_built,
                   rendered, ret, calls, root, is_output, stack, visited, pops, nodes,
                   printed, initial_root_visited>>

\* lines 80-83
DrawRender ==
    /\ dpc = "cluster_1"
    /\ pending = <<>>
    /\ rendered' = TRUE
    /\ ret' = "return_this_entry"
    /\ dpc' = "returned"
    /\ UNCHANGED <<runVars, kernelVars, draws, target, target_data, output_entries,
                   byname_entries, output, output_parents_data, graph_built, pending,
                   dfsVars, logVars>>

\* the kernels draw is run on: a cycle a <-> b with an unknown name c that is also
\* given as an object; a shared ancestor c; a kernel that knows a alone
DrawKernels ==
    { [known |-> {"a", "b"},
       parents |-> [n \in Names |->
            CASE n = "a" -> << [byref |-> FALSE, name |-> "b"], [byref |-> FALSE, name |-> "c"],
                               [byref |-> TRUE, name |-> "c"] >>
              [] n = "b" -> << [byref |-> FALSE, name |-> "a"] >>
              [] OTHER   -> << [byref |-> FALSE, name |-> "b"] >>]],
      [known |-> {"a", "b", "c"},
       parents |-> [n \in Names |->
            CASE n = "a" -> << [byref |-> FALSE, name |-> "b"], [byref |-> FALSE, name |-> "c"] >>
              [] n = "b" -> << [byref |-> TRUE, name |-> "c"] >>
              [] OTHER   -> << >>]],
      [known |-> {"a"},
       parents |-> [n \in Names |-> << >>]] }

InitDraw ==
    /\ RunIdle
    /\ \E kernel \in DrawKernels : known = kernel.known /\ parents = kernel.parents
    /\ dpc = "idle" /\ draws = 0 /\ target = NoEntry /\ target_data = <<>>
    /\ output_entries = <<>> /\ byname_entries = <<>> /\ output = FALSE
    /\ output_parents_data = <<>> /\ graph_built = FALSE /\ pending = <<>>
    /\ nodes = <<>> /\ edges = <<>> /\ rendered = FALSE /\ ret = "pending"
    /\ printed = <<>>
    /\ dfs_pc = "idle" /\ calls = 0 /\ root = NoEntry /\ is_output = FALSE
    /\ stack = <<>> /\ visited = {} /\ pops = 0
    /\ initial_root_visited = FALSE

NextDraw ==
    \/ DrawStart \/ DrawNotFound \/ DrawScan
    \/ DrawCluster0 \/ DrawOutputNode
    \/ DrawFromFile \/ DrawFromFileFault \/ DrawFromEntries \/ DrawNoOutputParents
    \/ DrawCluster1 \/ DrawCluster1Edge \/ DrawRender
    \/ DfsStep \/ DfsExit

SpecDraw == InitDraw /\ [][NextDraw]_vars

(* ======================= claims: batch inference ======================= *)
LoopEnded == script = "batched" /\ pc \in {"output", "done"}

BatchIndices(k) == {i \in 0..num_of_images : batches[k][1] <= i /\ i < batches[k][2]}

\* C1: for num_of_images >= 0 and max_batch_size >= 1 the ranges [batch_start,
\* batch_open_end) of the batch loop are consecutive, pairwise disjoint and cover
\* [0, num_of_images) exactly; every batch but the last has max_batch_size indices,
\* the last holds the remainder, and the loop runs ceil(num_of_images / max_batch_size)
\* times.
C1_BatchesPartition ==
    (script = "batched" /\ max_batch_size >= 1) =>
        /\ \A k \in 1..Len(batches) :
              /\ batches[k][1] < batches[k][2]
              /\ batches[k][1] = (IF k = 1 THEN 0 ELSE batches[k - 1][2])
              /\ batches[k][2] <= num_of_images
        /\ \A j, k \in 1..Len(batches) : j # k => BatchIndices(j) \cap BatchIndices(k) = {}
        /\ \A k \in 1..(Len(batches) - 1) : batches[k][2] - batches[k][1] = max_batch_size
        /\ Len(batches) = batch_num
        /\ Len(batches) <= batch_count
        /\ LoopEnded =>
              /\ UNION {BatchIndices(k) : k \in 1..Len(batches)} = 0..(num_of_images - 1)
              /\ Len(batches) = batch_count
              /\ batches # <<>> =>
                    LET last == batches[Len(batches)]
                    IN /\ last[2] = num_of_images
                       /\ last[2] - last[1] =
                             num_of_images - (Len(batches) - 1) * max_batch_size
                       /\ last[2] - last[1] <= max_batch_size

C1_Witness ==
    /\ script = "batched" /\ pc = "done"
    /\ num_of_images = 4 /\ max_batch_size = 3
    /\ batches = << <<0, 3>>, <<3, 4>> >>

LoaderCalls == SelectSeq(events, LAMBDA e : e.kind # "sleep")
Sleeps == SelectSeq(events, LAMBDA e : e.kind = "sleep")

TwoFailuresThenSuccess ==
    /\ script = "batched"
    /\ Len(LoaderCalls) = 3
    /\ LoaderCalls[1].kind = "load_http_error"
    /\ LoaderCalls[2].kind = "load_http_error"
    /\ LoaderCalls[3].kind = "load_ok"

\* C2: the loader is called at most max_attempts times; no sleep precedes the first
\* call and exactly one sleep of retry_in_seconds precedes each later call; no call
\* follows the first success; after two HTTP errors and a success exactly two sleeps
\* have happened, the model is bound and the run goes on to the batch loop.
C2_RetryLoop ==
    /\ Len(LoaderCalls) <= max_attempts
    /\ \A i \in 1..Len(events) :
          /\ (events[i].kind = "sleep") <=> (i % 2 = 0)
          /\ events[i].kind = "sleep" => events[i].s = retry_in_seconds
          /\ events[i].kind = "load_ok" => i = Len(events)
    /\ events # <<>> => events[Len(events)].kind # "sleep"
    /\ TwoFailuresThenSuccess =>
          /\ Len(Sleeps) = 2
          /\ model_set
          /\ pc # "load_model"
          /\ fault # "NameError"
          /\ pc = "fault" => batch_num > 0 \/ num_of_images = 0

C2_Witness ==
    /\ TwoFailuresThenSuccess
    /\ Len(events) = 5
    /\ pc = "done"
    /\ batch_num > 0

AllAttemptsFailed ==
    /\ script = "batched"
    /\ Len(LoaderCalls) = max_attempts
    /\ \A i \in 1..Len(LoaderCalls) : LoaderCalls[i].kind = "load_http_error"

\* C3: when all max_attempts loads fail with HTTPError the run ends in the NameError
\* of the first use of model: no batch is loaded or inferred and no output file is
\* written, whatever the output path.
C3_ExhaustedRetriesFault ==
    AllAttemptsFailed =>
        /\ ~model_set
        /\ pc \in {"use_model", "fault"}
        /\ pc = "fault" => fault = "NameError"
        /\ pc = "use_model" => fault = "none"
        /\ batches = <<>> /\ batch_num = 0 /\ loaded = <<>>
        /\ predictions = {} /\ list_batch_inference_s = <<>>
        /\ output_dict = "none"
        /\ ~file_written

C3_Witness ==
    /\ AllAttemptsFailed
    /\ pc = "fault" /\ fault = "NameError"
    /\ OutputWanted
    /\ num_of_images > 0 /\ dataset_size >= num_of_images

ExpectedKeys == {FileName(N) : N \in 1..num_of_images}

\* C7: after a fault-free batched run with n images and batch size b the two
\* per-batch lists hold ceil(n/b) entries each, predictions and top_n hold exactly
\* the n file names of the numbers 1..n, and every image was opened exactly once.
C7_FaultFreeRunShape ==
    LoopEnded =>
        /\ Len(list_batch_loading_s) = CeilDiv(num_of_images, max_batch_size)
        /\ Len(list_batch_inference_s) = CeilDiv(num_of_images, max_batch_size)
        /\ sum_loading_s = SumSeq(list_batch_loading_s)
        /\ sum_inference_s = SumSeq(list_batch_inference_s)
        /\ predictions = ExpectedKeys
        /\ top_n_predictions = ExpectedKeys
        /\ Cardinality(predictions) = num_of_images
        /\ Cardinality(top_n_predictions) = num_of_images
        /\ loaded = [k \in 1..num_of_images |-> k]
        /\ file_written =>
              /\ output_dict.predictions = ExpectedKeys
              /\ output_dict.top_n = ExpectedKeys
              /\ Len(output_dict.list_batch_loading_s) = Len(batches)
              /\ Len(output_dict.list_batch_inference_s) = Len(batches)

C7_Witness ==
    /\ script = "batched" /\ pc = "done" /\ file_written
    /\ num_of_images = 4 /\ max_batch_size = 2
    /\ batches = << <<0, 2>>, <<2, 4>> >>
    /\ Len(list_batch_loading_s) = 2 /\ Len(list_batch_inference_s) = 2
    /\ Cardinality(predictions) = 4

Finished == pc \in {"done", "fault"}

\* C9 as stated: with num_of_images = 0 (model loaded) either script ends in the
\* division-by-zero error.
C9_Original ==
    (num_of_images = 0 /\ model_set /\ Finished) =>
        (pc = "fault" /\ fault = "ZeroDivisionError")

\* C9 amended: with num_of_images = 0 no batch is processed and no file is written;
\* the batched runner ends in ZeroDivisionError exactly when an output path is given
\* and ends normally otherwise; the script without batching ends in ZeroDivisionError
\* when it reaches its output block with an output path given.
C9_ZeroImages ==
    (num_of_images = 0 /\ model_set) =>
        /\ batches = <<>> /\ loaded = <<>>
        /\ ~file_written /\ output_dict = "none"
        /\ (script = "batched" /\ Finished) =>
              IF OutputWanted THEN pc = "fault" /\ fault = "ZeroDivisionError"
                              ELSE pc = "done" /\ fault = "none"
        /\ (script = "simple" /\ Finished) =>
              IF OutputWanted THEN pc = "fault" /\ fault \in {"ZeroDivisionError", "RuntimeError"}
                              ELSE pc = "done" \/ fault = "RuntimeError"
        /\ (script = "simple" /\ pc = "s_output" /\ OutputWanted) =>
              ENABLED SimpleOutputFault /\ ~ENABLED SimpleWritten

C9_Witness ==
    /\ script = "batched" /\ num_of_images = 0 /\ model_set
    /\ OutputWanted
    /\ pc = "fault" /\ fault = "ZeroDivisionError"
    /\ batch_num = 0

(* ============================ claims: dfs ============================== *)
\* S and the entries one resolvable parent link away from S
ParentStep(S) ==
    S \cup {p \in Names : \E n \in S : \E k \in 1..Len(parents[n]) :
                              ResolveParent(parents[n][k]) = p}

RECURSIVE ParentClosure(_)
ParentClosure(S) == IF ParentStep(S) = S THEN S ELSE ParentClosure(ParentStep(S))

\* the entry names reachable from r through resolvable parent links
Reachable(r) == IF byname(r) = NoEntry THEN {} ELSE ParentClosure({r})

CallNodes == SelectSeq(nodes, LAMBDA n : n.call = calls)
CallEdges == SelectSeq(edges, LAMBDA e : e.call = calls)

\* the number of parent elements of the entries of S
NumLinks(S) == Cardinality(UNION {{<<n, k>> : k \in 1..Len(parents[n])} : n \in S})

\* C4: one call of dfs(root) ends, and has then emitted exactly one node for each
\* entry name reachable from the root through resolvable parent links and none for
\* any other name, on graphs with shared ancestors and cycles too; an entry that is
\* on the stack several times is processed at its first pop only.
C4_DfsVisitsReachableOnce ==
    dfs_pc \in {"loop", "returned"} =>
        LET R == Reachable(root)
            emitted == CallNodes
        IN /\ \A i, j \in 1..Len(emitted) : emitted[i].name = emitted[j].name => i = j
           /\ {emitted[i].name : i \in 1..Len(emitted)} = visited
           /\ visited \subseteq R
           /\ pops <= 1 + NumLinks(R)
           /\ dfs_pc = "loop" => ENABLED DfsStep \/ ENABLED DfsExit
           /\ dfs_pc = "returned" =>
                 /\ stack = <<>>
                 /\ visited = R
                 /\ Len(emitted) = Cardinality(R)

\* a shared ancestor that is pushed twice and a cycle back to the root
C4_Witness ==
    /\ dfs_pc = "returned"
    /\ root = "a"
    /\ visited = {"a", "b", "c"}
    /\ Len(CallNodes) = 3
    /\ pops = 4
    /\ \E k \in 1..Len(parents["b"]) : ResolveParent(parents["b"][k]) = "a"

\* C10: for every processed entry and every element of its "_parent_entries" an edge
\* parent -> child is emitted when the parent resolves (a known name or an entry
\* object), already visited or not; an unknown name gives no edge, no node, no push
\* and no error, and the remaining parents are still handled.
C10_EdgesPerResolvedParent ==
    dfs_pc \in {"loop", "returned"} =>
        LET R == Reachable(root)
            emitted == CallEdges
        IN /\ \A c \in Names, p \in Names :
                 Cardinality({k \in 1..Len(emitted) : emitted[k].from = p /\ emitted[k].to = c})
                 = IF c \in visited
                     THEN Cardinality({k \in 1..Len(parents[c]) :
                                          ResolveParent(parents[c][k]) = p})
                     ELSE 0
           /\ Len(stack) + pops = (IF byname(root) = NoEntry THEN 0 ELSE 1) + Len(emitted)
           /\ \A k \in 1..Len(stack) : stack[k][1] \in R
           /\ byname(root) # NoEntry => printed = <<>>

\* an unknown name between two resolvable parents, one of them visited already
C10_Witness ==
    /\ dfs_pc = "returned"
    /\ root = "a"
    /\ "c" \notin known
    /\ Len(parents["a"]) = 3
    /\ parents["a"][1] = [byref |-> FALSE, name |-> "a"]
    /\ parents["a"][2] = [byref |-> FALSE, name |-> "c"]
    /\ parents["a"][3] = [byref |-> TRUE, name |-> "c"]
    /\ Len(CallEdges) = 2
    /\ CallEdges[1].from = "a" /\ CallEdges[1].to = "a"
    /\ CallEdges[2].from = "c" /\ CallEdges[2].to = "a"
    /\ visited = {"a", "c"}

(* ============================ claims: draw ============================= *)
\* the nodes dfs has emitted in the current invocation of draw, in order
DfsNodes == SelectSeq(nodes, LAMBDA n : n.call >= 1)

\* C5: in every invocation of draw on a resolvable target the first node any dfs
\* traversal emits is red and no later one is; every other node is lightblue when
\* is_output is true and lightcoral otherwise; initial_root_visited is reset at the
\* start of each draw, so an earlier draw never takes the red node away.
C5_RedFirstOnly ==
    draws > 0 =>
        LET emitted == DfsNodes
        IN /\ \A i \in 1..Len(emitted) :
                 /\ emitted[i].color = (IF i = 1 THEN "red"
                                        ELSE IF emitted[i].is_output THEN "lightblue"
                                        ELSE "lightcoral")
                 /\ emitted[i].is_output <=> emitted[i].call > 1
           /\ initial_root_visited <=> emitted # <<>>
           /\ (byname(target) # NoEntry /\ dpc \in {"select", "cluster_1", "in_cluster_1",
                                                   "returned", "fault"}) =>
                 /\ emitted # <<>>
                 /\ emitted[1].name = target
                 /\ emitted[1].call = 1

\* a second draw whose two clusters give a red, a lightcoral and a lightblue node
C5_Witness ==
    /\ draws = 2
    /\ dpc = "returned" /\ rendered
    /\ Len(DfsNodes) >= 3
    /\ DfsNodes[1].color = "red"
    /\ \E i \in 2..Len(DfsNodes) : DfsNodes[i].color = "lightcoral"
    /\ \E i \in 2..Len(DfsNodes) : DfsNodes[i].color = "lightblue"

\* C6: when byname does not find the target, draw prints its error and stops: no
\* graph object, no dfs call, no node, no edge, nothing rendered, nothing returned.
C6_NotFoundNoOutput ==
    (draws > 0 /\ byname(target) = NoEntry) =>
        /\ dpc = "returned"
        /\ printed = <<"ERROR! Provide correct entry name!">>
        /\ ret = "None"
        /\ ~graph_built
        /\ calls = 0 /\ dfs_pc = "idle" /\ pops = 0
        /\ nodes = <<>> /\ edges = <<>>
        /\ ~rendered

\* the second draw fails to resolve after a first one that resolved or did not
C6_Witness ==
    /\ draws = 2
    /\ target = "c" /\ "c" \notin known /\ "a" \in known
    /\ dpc = "returned"
    /\ ret = "None"

\* draw is past lines 54-56
PastOutputNode == dpc \in {"select", "cluster_1", "in_cluster_1", "returned", "fault"}
                  /\ graph_built

OutputNodeAdded == \E i \in 1..Len(nodes) : nodes[i] = OutputNode
TargetOutputEdgeAdded == \E i \in 1..Len(edges) : edges[i] = OutputEdge(target)

\* the three signals as the claim names them
NestsParentEntries ==
    \E i \in 1..Len(target_data) : InStr("_parent_entries", target_data[i].val)
HasTagsField ==
    \E i \in 1..Len(target_data) :
        target_data[i].key = "tags" \/ InStr("tags", target_data[i].val)
HasOutputEntryParents == output_entries # <<>>

\* C8 as stated: the "output" node and the edge target -> "output" are added exactly
\* when own metadata nests "_parent_entries", or has a "tags" field, or
\* "output_entry_parents" is non-empty.
C8_Original ==
    PastOutputNode =>
        (OutputNodeAdded <=> (NestsParentEntries \/ HasTagsField \/ HasOutputEntryParents))

\* C8 amended: the "output" node and the edge target -> "output" are added exactly
\* when some value of own metadata renders with "_parent_entries" or "tags" in it,
\* or own metadata is non-empty and "output_entry_parents" is non-empty.
C8_OutputDetection ==
    PastOutputNode =>
        LET signalled ==
                \/ \E i \in 1..Len(target_data) :
                      \/ InStr("_parent_entries", target_data[i].val)
                      \/ InStr("tags", target_data[i].val)
                \/ target_data # <<>> /\ output_entries # <<>>
        IN /\ OutputNodeAdded <=> signalled
           /\ output <=> signalled
           /\ dpc = "select" => (TargetOutputEdgeAdded <=> signalled)
           /\ Cardinality({i \in 1..Len(nodes) : nodes[i] = OutputNode}) <= 1

\* added on the strength of "output_entry_parents" alone
C8_Witness ==
    /\ dpc = "select"
    /\ Len(target_data) = 1 /\ target_data[1].key = "_parent_entries"
    /\ output_entries # <<>>
    /\ OutputNodeAdded /\ TargetOutputEdgeAdded

====
